---- MODULE Spec2Model ----
(***************************************************************************)
(* Model of the storefront aggregation of OverSounds TPP:                  *)
(* swagger_server/controllers/store_controller.py, show_storefront_products *)
(* together with the Product and Error models it builds.                   *)
(*                                                                         *)
(* One invocation is a sequential process; pc is its position in the       *)
(* function body.  The upstream service TyA is the environment: each       *)
(* request draws its reply from a small set (a transport failure, a body   *)
(* that is not JSON, or a JSON value).                                     *)
(***************************************************************************)
EXTENDS Integers, Sequences, FiniteSets, TLC

\* Bound: the total number of detail records TyA sends during one call.
MaxRecords == 2

\* Bound: the total number of filter entries the extraction is checked on.
MaxEntries == 3

(***************************************************************************)
(* Python values, tagged by type.                                          *)
(***************************************************************************)
None == [t |-> "none"]
PyInt(n) == [t |-> "int", v |-> n]
\* A float is carried by its repr, e.g. "1.99".
PyFloat(s) == [t |-> "float", v |-> s]
PyStr(s) == [t |-> "str", v |-> s]
PyList(s) == [t |-> "list", v |-> s]
\* A dict is a function from its keys (strings) to values.
PyDict(f) == [t |-> "dict", v |-> f]
\* A local name that is not bound yet.
Unset == [t |-> "unset"]

EmptyList == PyList(<<>>)

\* type(v).__name__
TypeName(v) ==
  CASE v.t = "none" -> "NoneType"
    [] OTHER -> v.t

\* bool(v)
Truthy(v) ==
  CASE v.t = "none" -> FALSE
    [] v.t = "int" -> v.v # 0
    [] v.t = "float" -> v.v # "0.0"
    [] v.t = "str" -> v.v # ""
    [] v.t = "list" -> Len(v.v) > 0
    [] v.t = "dict" -> DOMAIN v.v # {}

\* str(v), for the values the controller renders as text.
Str(v) ==
  CASE v.t = "none" -> "None"
    [] v.t = "int" -> ToString(v.v)
    [] v.t = "float" -> v.v
    [] v.t = "str" -> v.v

\* dict.get(k) and dict.get(k, default)
GetD(d, k, default) == IF k \in DOMAIN d.v THEN d.v[k] ELSE default
Get(d, k) == GetD(d, k, None)

\* An exception: its class and its str().
Exc(type, msg) == [type |-> type, msg |-> msg]
NoExc == Exc("", "")

Ok(v) == [ok |-> TRUE, v |-> v]
Raise(e) == [ok |-> FALSE, exc |-> e]

NotIterable(v) ==
  Exc("TypeError", "'" \o TypeName(v) \o "' object is not iterable")
NoGet(v) ==
  Exc("AttributeError", "'" \o TypeName(v) \o "' object has no attribute 'get'")
NotSubscriptable(v) ==
  Exc("TypeError", "'" \o TypeName(v) \o "' object is not subscriptable")

RECURSIVE SetToSeq(_)
SetToSeq(S) ==
  IF S = {} THEN <<>>
  ELSE LET x == CHOOSE y \in S : TRUE IN <<x>> \o SetToSeq(S \ {x})

\* iter(v): the elements of a list, the keys of a dict; other values the
\* model draws (None, numbers) are not iterable.
Iter(v) ==
  CASE v.t = "list" -> Ok(v.v)
    [] v.t = "dict" -> Ok([i \in 1..Cardinality(DOMAIN v.v) |->
                            PyStr(SetToSeq(DOMAIN v.v)[i])])
    [] OTHER -> Raise(NotIterable(v))

(***************************************************************************)
(* The upstream service TyA.                                               *)
(***************************************************************************)
Kinds == <<"song", "album", "merch">>
KindSet == {"song", "album", "merch"}

IdKey(kind) ==
  CASE kind = "song" -> "songId"
    [] kind = "album" -> "albumId"
    [] kind = "merch" -> "merchId"

\* One entry of a filter response: {"songId": n}.
Entry(kind, n) == PyDict(IdKey(kind) :> PyInt(n))

\* The entries a filter response may hold: the identifier field missing,
\* null, zero, or a positive integer.
FilterEntries(kind) ==
  {PyDict(<<>>), PyDict(IdKey(kind) :> None)}
    \cup {Entry(kind, n) : n \in 0..2}

\* The filter arrays TyA answers with during a call: no entry, three
\* entries, and entries out of order with a zero identifier among them.
FilterBodies(kind) ==
  {<<>>,
   <<Entry(kind, 1), Entry(kind, 2), Entry(kind, 3)>>,
   <<Entry(kind, 2), Entry(kind, 0), Entry(kind, 1)>>}

\* A well-formed detail record, as in test_store_controller.py.
Common(n) ==
  ("title" :> PyStr("Test " \o ToString(n)))
    @@ ("artistId" :> PyInt(1))
    @@ ("price" :> PyFloat("1.99"))
    @@ ("description" :> PyStr("Test"))
    @@ ("releaseDate" :> PyStr("2024-01-01"))
    @@ ("cover" :> PyStr("base64..."))
    @@ ("genres" :> PyList(<<PyInt(1)>>))
    @@ ("collaborators" :> EmptyList)

SongRecord(n) ==
  PyDict(("songId" :> PyInt(n)) @@ ("albumId" :> PyInt(1))
           @@ ("duration" :> PyInt(180)) @@ Common(n))
AlbumRecord(n) ==
  PyDict(("albumId" :> PyInt(n))
           @@ ("songs" :> PyList(<<PyInt(1), PyInt(2)>>)) @@ Common(n))
MerchRecord(n) ==
  PyDict(("merchId" :> PyInt(n)) @@ Common(n))

GoodRecord(kind, n) ==
  CASE kind = "song" -> SongRecord(n)
    [] kind = "album" -> AlbumRecord(n)
    [] kind = "merch" -> MerchRecord(n)

\* The detail records TyA may send: two well-formed ones, and one whose
\* collaborators field is present but null.
DetailRecords(kind) ==
  {GoodRecord(kind, n) : n \in 1..2}
    \cup {PyDict(("collaborators" :> None) @@ GoodRecord(kind, 1).v)}

SeqsUpTo(S, n) == UNION {[1..k -> S] : k \in 0..n}

\* JSON bodies that are not an array of objects.
MalformedBodies ==
  {None, PyDict("error" :> PyStr("unavailable")), PyList(<<PyInt(7)>>)}

\* The HTTP statuses TyA answers with during a run: the success status of a
\* service in order, or the error status of one that answers every request
\* with an error.
VARIABLE tya

UsualStatuses == {200}
ErrorStatuses == {500}

\* What TyA can answer to one request: no answer in time, a refused
\* connection, or a response with a status and a body that is not JSON or
\* is a JSON value.
Replies(arrays) ==
  {[t |-> "timeout"], [t |-> "refused"]}
    \cup {[t |-> "text", status |-> s] : s \in tya}
    \cup {[t |-> "json", status |-> s, v |-> PyList(b)] :
            s \in tya, b \in arrays}
    \cup {[t |-> "json", status |-> s, v |-> b] :
            s \in tya, b \in MalformedBodies}

\* The detail arrays TyA answers with.
DetailBodies(kind) == SeqsUpTo(DetailRecords(kind), MaxRecords)

ItemsOf(v) == IF v.t = "list" THEN Len(v.v) ELSE 0

\* Mutant: the response is checked with raise_for_status() before its body
\* is read.
ClientGetJsonRaisesForStatus(reply) ==
  CASE reply.t = "timeout" -> Raise(Exc("ReadTimeout", "timed out"))
    [] reply.t = "refused" ->
         Raise(Exc("ConnectError", "[Errno 111] Connection refused"))
    [] reply.status \notin UsualStatuses ->
         Raise(Exc("HTTPStatusError", "Server error"))
    [] reply.t = "text" ->
         Raise(Exc("JSONDecodeError",
                   "Expecting value: line 1 column 1 (char 0)"))
    [] reply.t = "json" -> Ok(reply.v)

\* client.get(url).json()
ClientGetJson(reply) ==
  CASE reply.t = "timeout" -> Raise(Exc("ReadTimeout", "timed out"))
    [] reply.t = "refused" ->
         Raise(Exc("ConnectError", "[Errno 111] Connection refused"))
    [] reply.t = "text" ->
         Raise(Exc("JSONDecodeError",
                   "Expecting value: line 1 column 1 (char 0)"))
    [] reply.t = "json" -> Ok(reply.v)

\* What one request met: the status of the response (0 when none came),
\* whether its body was JSON, and whether client.get(url).json() raised.
Answer(reply) ==
  [status |-> IF reply.t \in {"timeout", "refused"} THEN 0 ELSE reply.status,
   json |-> reply.t = "json",
   raised |-> ~ClientGetJson(reply).ok]

\* A request answered with the success status and a JSON body.
Answered == [status |-> 200, json |-> TRUE, raised |-> FALSE]

(***************************************************************************)
(* The fetch step: lines 167-198.                                          *)
(***************************************************************************)
\* [item.get(key) for item in response if item.get(key)]
RECURSIVE Comprehension(_, _, _)
Comprehension(items, key, acc) ==
  IF items = <<>> THEN Ok(PyList(acc))
  ELSE LET item == Head(items) IN
       IF item.t # "dict" THEN Raise(NoGet(item))
       ELSE Comprehension(Tail(items), key,
                          IF Truthy(Get(item, key))
                          THEN Append(acc, Get(item, key)) ELSE acc)

\* Mutant: the comprehension tests "is not None" and keeps a zero identifier.
RECURSIVE ComprehensionNotNone(_, _, _)
ComprehensionNotNone(items, key, acc) ==
  IF items = <<>> THEN Ok(PyList(acc))
  ELSE LET item == Head(items) IN
       IF item.t # "dict" THEN Raise(NoGet(item))
       ELSE ComprehensionNotNone(Tail(items), key,
                                 IF Get(item, key) # None
                                 THEN Append(acc, Get(item, key)) ELSE acc)

ExtractIdsNotNone(response, key) ==
  LET it == Iter(response) IN
  IF it.ok THEN ComprehensionNotNone(it.v, key, <<>>) ELSE it

ExtractIds(response, key) ==
  LET it == Iter(response) IN
  IF it.ok THEN Comprehension(it.v, key, <<>>) ELSE it

\* Mutant: the identifiers are joined in ascending order.
RECURSIVE JoinSorted(_)
JoinSorted(ids) ==
  IF ids = <<>> THEN ""
  ELSE LET i == CHOOSE j \in 1..Len(ids) :
                  \A k \in 1..Len(ids) : ids[j].v <= ids[k].v
           rest == SubSeq(ids, 1, i - 1) \o SubSeq(ids, i + 1, Len(ids)) IN
       IF rest = <<>> THEN Str(ids[i])
       ELSE Str(ids[i]) \o "," \o JoinSorted(rest)

\* ",".join(map(str, ids))
RECURSIVE Join(_)
Join(ids) ==
  IF ids = <<>> THEN ""
  ELSE IF Len(ids) = 1 THEN Str(ids[1])
  ELSE Str(ids[1]) \o "," \o Join(Tail(ids))

\* One request as the client issues it: its path under TYA_SERVICE_URL and
\* its ids query parameter ("" when the request has none).
Request(path, ids) == [path |-> path, ids |-> ids]

FilterPath(kind) == "/" \o kind \o "/filter"
ListPath(kind) == "/" \o kind \o "/list"

(***************************************************************************)
(* The mapping step: lines 205-256, and models/product.py.                 *)
(***************************************************************************)
\* Product.__init__ stores its arguments unchecked.
Product(song_id, name, artist, release_date, album_id, description, song_list, merch_id, duration, cover, price, genre, colaborators) ==
  [song_id |-> song_id, album_id |-> album_id, merch_id |-> merch_id,
   name |-> name, price |-> price, description |-> description,
   artist |-> artist, colaborators |-> colaborators,
   release_date |-> release_date, duration |-> duration, genre |-> genre,
   cover |-> cover, song_list |-> song_list]

\* Mutant: a record without releaseDate gets a null release_date.
ReleaseDateNullWhenMissing(c) ==
  IF Get(c, "releaseDate") = None THEN None
  ELSE PyStr(Str(Get(c, "releaseDate")) \o "T00:00:00Z")

\* f"{c.get('releaseDate')}T00:00:00Z"
ReleaseDate(c) == PyStr(Str(Get(c, "releaseDate")) \o "T00:00:00Z")

\* Mutant: the genre is taken from the last element of genres.
GenreLast(c) ==
  LET g == Get(c, "genres") IN
  IF ~Truthy(g) THEN Ok(PyStr("0"))
  ELSE IF g.t = "list" THEN Ok(PyStr(Str(g.v[Len(g.v)])))
  ELSE Raise(NotSubscriptable(g))

\* str(c.get("genres", ["0"])[0]) if c.get("genres") else "0"
Genre(c) ==
  LET g == Get(c, "genres") IN
  IF ~Truthy(g) THEN Ok(PyStr("0"))
  ELSE IF g.t = "list" THEN Ok(PyStr(Str(g.v[1])))
  ELSE Raise(NotSubscriptable(g))

\* [str(i) for i in c.get(field, [])]
StrList(c, field) ==
  LET it == Iter(GetD(c, field, EmptyList)) IN
  IF it.ok THEN Ok(PyList([i \in 1..Len(it.v) |-> PyStr(Str(it.v[i]))]))
  ELSE it

\* Mutant: the song loop reads the name from the field "name".
MapSongNameFromName(c) ==
  IF c.t # "dict" THEN Raise(NoGet(c))
  ELSE LET genre == Genre(c)
           colaborators == StrList(c, "collaborators") IN
       IF ~genre.ok THEN genre
       ELSE IF ~colaborators.ok THEN colaborators
       ELSE Ok(Product(Get(c, "songId"), Get(c, "name"),
                       PyStr(Str(Get(c, "artistId"))), ReleaseDate(c),
                       Get(c, "albumId"), Get(c, "description"), EmptyList,
                       PyInt(0), Get(c, "duration"), Get(c, "cover"),
                       Get(c, "price"), genre.v, colaborators.v))

MapSong(c) ==
  IF c.t # "dict" THEN Raise(NoGet(c))
  ELSE LET genre == Genre(c)
           colaborators == StrList(c, "collaborators") IN
       IF ~genre.ok THEN genre
       ELSE IF ~colaborators.ok THEN colaborators
       ELSE Ok(Product(Get(c, "songId"), Get(c, "title"),
                       PyStr(Str(Get(c, "artistId"))), ReleaseDate(c),
                       Get(c, "albumId"), Get(c, "description"), EmptyList,
                       PyInt(0), Get(c, "duration"), Get(c, "cover"),
                       Get(c, "price"), genre.v, colaborators.v))

\* Mutant: the album loop passes the songs list as it came, not as text.
MapAlbumRawSongList(a) ==
  IF a.t # "dict" THEN Raise(NoGet(a))
  ELSE LET song_list == Iter(GetD(a, "songs", EmptyList))
           genre == Genre(a)
           colaborators == StrList(a, "collaborators") IN
       IF ~song_list.ok THEN song_list
       ELSE IF ~genre.ok THEN genre
       ELSE IF ~colaborators.ok THEN colaborators
       ELSE Ok(Product(PyInt(0), Get(a, "title"),
                       PyStr(Str(Get(a, "artistId"))), ReleaseDate(a),
                       Get(a, "albumId"), Get(a, "description"),
                       PyList(song_list.v),
                       PyInt(0), PyInt(0), Get(a, "cover"),
                       Get(a, "price"), genre.v, colaborators.v))

\* Mutant: the album loop passes genre="Merch", as the merch loop does.
MapAlbumGenreMerch(a) ==
  IF a.t # "dict" THEN Raise(NoGet(a))
  ELSE LET song_list == StrList(a, "songs")
           colaborators == StrList(a, "collaborators") IN
       IF ~song_list.ok THEN song_list
       ELSE IF ~colaborators.ok THEN colaborators
       ELSE Ok(Product(PyInt(0), Get(a, "title"),
                       PyStr(Str(Get(a, "artistId"))), ReleaseDate(a),
                       Get(a, "albumId"), Get(a, "description"), song_list.v,
                       PyInt(0), PyInt(0), Get(a, "cover"),
                       Get(a, "price"), PyStr("Merch"), colaborators.v))

MapAlbum(a) ==
  IF a.t # "dict" THEN Raise(NoGet(a))
  ELSE LET song_list == StrList(a, "songs")
           genre == Genre(a)
           colaborators == StrList(a, "collaborators") IN
       IF ~song_list.ok THEN song_list
       ELSE IF ~genre.ok THEN genre
       ELSE IF ~colaborators.ok THEN colaborators
       ELSE Ok(Product(PyInt(0), Get(a, "title"),
                       PyStr(Str(Get(a, "artistId"))), ReleaseDate(a),
                       Get(a, "albumId"), Get(a, "description"), song_list.v,
                       PyInt(0), PyInt(0), Get(a, "cover"),
                       Get(a, "price"), genre.v, colaborators.v))

\* Mutant: the merch loop passes artistId as it came, not as text.
MapMerchArtistRaw(m) ==
  IF m.t # "dict" THEN Raise(NoGet(m))
  ELSE LET colaborators == StrList(m, "collaborators") IN
       IF ~colaborators.ok THEN colaborators
       ELSE Ok(Product(PyInt(0), Get(m, "title"),
                       Get(m, "artistId"), ReleaseDate(m),
                       PyInt(0), Get(m, "description"), EmptyList,
                       Get(m, "merchId"), PyInt(0), Get(m, "cover"),
                       Get(m, "price"), PyStr("Merch"), colaborators.v))

MapMerch(m) ==
  IF m.t # "dict" THEN Raise(NoGet(m))
  ELSE LET colaborators == StrList(m, "collaborators") IN
       IF ~colaborators.ok THEN colaborators
       ELSE Ok(Product(PyInt(0), Get(m, "title"),
                       PyStr(Str(Get(m, "artistId"))), ReleaseDate(m),
                       PyInt(0), Get(m, "description"), EmptyList,
                       Get(m, "merchId"), PyInt(0), Get(m, "cover"),
                       Get(m, "price"), PyStr("Merch"), colaborators.v))

MapOne(kind, r) ==
  CASE kind = "song" -> MapSong(r)
    [] kind = "album" -> MapAlbum(r)
    [] kind = "merch" -> MapMerch(r)

\* Mutant: a record whose product is already in productos is skipped.
RECURSIVE MapLoopSkipsDuplicates(_, _, _)
MapLoopSkipsDuplicates(kind, items, acc) ==
  IF items = <<>> THEN [ok |-> TRUE, prods |-> acc]
  ELSE LET r == MapOne(kind, Head(items)) IN
       IF ~r.ok THEN [ok |-> FALSE, prods |-> acc, exc |-> r.exc]
       ELSE IF \E i \in 1..Len(acc) : acc[i] = r.v
       THEN MapLoopSkipsDuplicates(kind, Tail(items), acc)
       ELSE MapLoopSkipsDuplicates(kind, Tail(items), Append(acc, r.v))

\* Mutant: each product is inserted at the front of productos.
RECURSIVE MapLoopInsertFirst(_, _, _)
MapLoopInsertFirst(kind, items, acc) ==
  IF items = <<>> THEN [ok |-> TRUE, prods |-> acc]
  ELSE LET r == MapOne(kind, Head(items)) IN
       IF r.ok THEN MapLoopInsertFirst(kind, Tail(items), <<r.v>> \o acc)
       ELSE [ok |-> FALSE, prods |-> acc, exc |-> r.exc]

\* for r in records: productos.append(Product(...)).  The products appended
\* before a record raises stay in productos.
RECURSIVE MapLoop(_, _, _)
MapLoop(kind, items, acc) ==
  IF items = <<>> THEN [ok |-> TRUE, prods |-> acc]
  ELSE LET r == MapOne(kind, Head(items)) IN
       IF r.ok THEN MapLoop(kind, Tail(items), Append(acc, r.v))
       ELSE [ok |-> FALSE, prods |-> acc, exc |-> r.exc]

ForEach(kind, records, productos0) ==
  LET it == Iter(records) IN
  IF it.ok THEN MapLoop(kind, it.v, productos0)
  ELSE [ok |-> FALSE, prods |-> productos0, exc |-> it.exc]

\* Model.to_dict() of a Product, keyed as Product.attribute_map names the
\* attributes.
ToDict(p) ==
  PyDict(("songId" :> p.song_id) @@ ("albumId" :> p.album_id)
           @@ ("merchId" :> p.merch_id) @@ ("name" :> p.name)
           @@ ("price" :> p.price) @@ ("description" :> p.description)
           @@ ("artist" :> p.artist) @@ ("colaborators" :> p.colaborators)
           @@ ("releaseDate" :> p.release_date) @@ ("duration" :> p.duration)
           @@ ("genre" :> p.genre) @@ ("cover" :> p.cover)
           @@ ("songList" :> p.song_list))

\* Error(code=..., message=...)
Error(code, message) == [t |-> "Error", code |-> code, message |-> message]

ErrorCode == "500"

(***************************************************************************)
(* The state of one invocation of show_storefront_products.               *)
(***************************************************************************)
VARIABLES
  pc,                  \* position in the function body
  client,              \* the httpx.Client of line 160: unopened, open, closed
  song_ids_response,   \* line 167
  album_ids_response,  \* line 168
  merch_ids_response,  \* line 169
  song_ids,            \* line 173
  album_ids,           \* line 174
  merch_ids,           \* line 175
  canciones,           \* lines 183, 190, 202
  albumes,             \* lines 184, 194, 202
  merch,               \* lines 185, 198, 202
  productos,           \* line 156
  e,                   \* the exception bound by an except clause
  result,              \* the value the function returns
  requests,            \* history: the requests issued, in order
  fetched,             \* history: kinds whose detail records were received
  failed_kind,         \* history: the kind whose fetch raised, or ""
  origin,              \* history: the kind each element of productos came from
  raised,              \* history: the exception a mapping loop raised
  replies,             \* history: what each request met, in order
  cart_body,           \* a CartBody object (models/cart_body.py), if one exists
  assigned,            \* history: the value last assigned to cart_body.unidades
  cart_raised,         \* history: the exception that assignment raised
  inv_pc,              \* two invocations: the position of each
  inv_up,              \* two invocations: the TyA replies each one meets
  frames,              \* two invocations: the locals of each frame
  inv_result           \* two invocations: the value each one returned

locals ==
  <<song_ids_response, album_ids_response, merch_ids_response,
    song_ids, album_ids, merch_ids, canciones, albumes, merch>>
history == <<requests, fetched, failed_kind, origin, raised, replies>>
cart == <<cart_body, assigned, cart_raised>>
twin == <<inv_pc, inv_up, frames, inv_result>>
\* The state outside the one call the actions below belong to.
outside == <<cart, tya, twin>>
vars == <<pc, client, locals, productos, e, result, history, outside>>

\* No pair of invocations is under way.
NoInvocations ==
  inv_pc = <<>> /\ inv_up = <<>> /\ frames = <<>> /\ inv_result = <<>>

\* No CartBody has been constructed: the storefront call builds none.
NoCart == cart_body = Unset /\ assigned = Unset /\ cart_raised = NoExc

\* Detail records received so far in this call.
Used == ItemsOf(canciones) + ItemsOf(albumes) + ItemsOf(merch)

Fits(out) == out.ok => Used + ItemsOf(out.v) <= MaxRecords

Init ==
  /\ pc = "start"
  /\ client = "unopened"
  /\ song_ids_response = Unset /\ album_ids_response = Unset
  /\ merch_ids_response = Unset
  /\ song_ids = Unset /\ album_ids = Unset /\ merch_ids = Unset
  /\ canciones = Unset /\ albumes = Unset /\ merch = Unset
  /\ productos = Unset
  /\ e = NoExc
  /\ result = Unset
  /\ requests = <<>>
  /\ fetched = {}
  /\ failed_kind = ""
  /\ origin = <<>>
  /\ raised = NoExc
  /\ replies = [i \in 1..Len(requests) |-> Answered]
  /\ tya = UsualStatuses
  /\ NoCart
  /\ NoInvocations

\* Lines 154-160: productos = [] and the client is opened.
Enter ==
  /\ pc = "start"
  /\ productos' = <<>>
  /\ client' = "open"
  /\ pc' = "song_filter"
  /\ UNCHANGED <<locals, e, result, history>>
  /\ UNCHANGED outside

\* Mutant: the client is used without a with block, so an exception leaves
\* it open.
FetchRaisesLeavesOpen(kind, exc) ==
  /\ e' = exc
  /\ client' = client
  /\ failed_kind' = kind
  /\ pc' = "fetch_except"

\* An exception inside the with block: the client is closed on the way
\* out and control passes to the handler of line 200.
FetchRaises(kind, exc) ==
  /\ e' = exc
  /\ client' = "closed"
  /\ failed_kind' = kind
  /\ pc' = "fetch_except"

\* Line 167.
GetSongFilter ==
  /\ pc = "song_filter"
  /\ \E reply \in Replies(FilterBodies("song")) :
       LET out == ClientGetJson(reply) IN
       /\ replies' = Append(replies, Answer(reply))
       /\ requests' = Append(requests, Request(FilterPath("song"), ""))
       /\ IF out.ok
          THEN /\ song_ids_response' = out.v
               /\ pc' = "album_filter"
               /\ UNCHANGED <<client, e, failed_kind>>
          ELSE /\ FetchRaises("song", out.exc)
               /\ UNCHANGED song_ids_response
  /\ UNCHANGED <<album_ids_response, merch_ids_response, song_ids, album_ids,
                 merch_ids, canciones, albumes, merch, productos, result,
                 fetched, origin, raised>>
  /\ UNCHANGED outside

\* Mutant: the album filter request has a handler of its own, which takes
\* a failure for an empty response and lets the call go on.
GetAlbumFilterIsolated ==
  /\ pc = "album_filter"
  /\ \E reply \in Replies(FilterBodies("album")) :
       LET out == ClientGetJson(reply) IN
       /\ replies' = Append(replies, Answer(reply))
       /\ requests' = Append(requests, Request(FilterPath("album"), ""))
       /\ album_ids_response' = IF out.ok THEN out.v ELSE EmptyList
       /\ failed_kind' = IF out.ok THEN failed_kind ELSE "album"
       /\ pc' = "merch_filter"
       /\ UNCHANGED <<client, e>>
  /\ UNCHANGED <<song_ids_response, merch_ids_response, song_ids, album_ids,
                 merch_ids, canciones, albumes, merch, productos, result,
                 fetched, origin, raised>>
  /\ UNCHANGED outside

\* Line 168.
GetAlbumFilter ==
  /\ pc = "album_filter"
  /\ \E reply \in Replies(FilterBodies("album")) :
       LET out == ClientGetJson(reply) IN
       /\ replies' = Append(replies, Answer(reply))
       /\ requests' = Append(requests, Request(FilterPath("album"), ""))
       /\ IF out.ok
          THEN /\ album_ids_response' = out.v
               /\ pc' = "merch_filter"
               /\ UNCHANGED <<client, e, failed_kind>>
          ELSE /\ FetchRaises("album", out.exc)
               /\ UNCHANGED album_ids_response
  /\ UNCHANGED <<song_ids_response, merch_ids_response, song_ids, album_ids,
                 merch_ids, canciones, albumes, merch, productos, result,
                 fetched, origin, raised>>
  /\ UNCHANGED outside

\* Line 169.
GetMerchFilter ==
  /\ pc = "merch_filter"
  /\ \E reply \in Replies(FilterBodies("merch")) :
       LET out == ClientGetJson(reply) IN
       /\ replies' = Append(replies, Answer(reply))
       /\ requests' = Append(requests, Request(FilterPath("merch"), ""))
       /\ IF out.ok
          THEN /\ merch_ids_response' = out.v
               /\ pc' = "extract"
               /\ UNCHANGED <<client, e, failed_kind>>
          ELSE /\ FetchRaises("merch", out.exc)
               /\ UNCHANGED merch_ids_response
  /\ UNCHANGED <<song_ids_response, album_ids_response, song_ids, album_ids,
                 merch_ids, canciones, albumes, merch, productos, result,
                 fetched, origin, raised>>
  /\ UNCHANGED outside

\* Lines 173-185: the three comprehensions, in order, then the three empty
\* record lists.  A comprehension that raises leaves the later names unbound.
Extract ==
  /\ pc = "extract"
  /\ LET s == ExtractIds(song_ids_response, IdKey("song"))
         a == ExtractIds(album_ids_response, IdKey("album"))
         m == ExtractIds(merch_ids_response, IdKey("merch")) IN
     /\ song_ids' = IF s.ok THEN s.v ELSE song_ids
     /\ album_ids' = IF s.ok /\ a.ok THEN a.v ELSE album_ids
     /\ merch_ids' = IF s.ok /\ a.ok /\ m.ok THEN m.v ELSE merch_ids
     /\ IF s.ok /\ a.ok /\ m.ok
        THEN /\ canciones' = EmptyList
             /\ albumes' = EmptyList
             /\ merch' = EmptyList
             /\ pc' = "song_list"
             /\ UNCHANGED <<client, e, failed_kind>>
        ELSE /\ FetchRaises(IF ~s.ok THEN "song"
                            ELSE IF ~a.ok THEN "album" ELSE "merch",
                            IF ~s.ok THEN s.exc
                            ELSE IF ~a.ok THEN a.exc ELSE m.exc)
             /\ UNCHANGED <<canciones, albumes, merch>>
  /\ UNCHANGED <<song_ids_response, album_ids_response, merch_ids_response,
                 productos, result, requests, fetched, origin, raised,
                 replies>>
  /\ UNCHANGED outside

\* A detail response that is an array holding at least one record.
Received(body) == body.t = "list" /\ Len(body.v) > 0

\* Mutant: the detail request is issued whether or not there are identifiers.
HasIdsAlways(ids) == TRUE

\* if song_ids: / if album_ids: / if merch_ids:
HasIds(ids) == Truthy(ids)

\* Mutant: a song detail request that fails is sent again.
GetSongListRetries ==
  /\ pc = "song_list"
  /\ \/ /\ HasIds(song_ids)
        /\ \E reply \in Replies(DetailBodies("song")) :
             LET out == ClientGetJson(reply) IN
             /\ Fits(out)
             /\ replies' = Append(replies, Answer(reply))
             /\ requests' = Append(requests,
                                   Request(ListPath("song"), Join(song_ids.v)))
             /\ canciones' = IF out.ok THEN out.v ELSE canciones
             /\ fetched' = IF out.ok /\ Received(out.v)
                           THEN fetched \cup {"song"} ELSE fetched
             /\ pc' = IF out.ok THEN "album_list" ELSE "song_list"
             /\ UNCHANGED <<client, e, failed_kind>>
     \/ /\ ~HasIds(song_ids)
        /\ pc' = "album_list"
        /\ UNCHANGED <<client, e, failed_kind, canciones, fetched, requests,
                     replies>>
  /\ UNCHANGED <<song_ids_response, album_ids_response, merch_ids_response,
                 song_ids, album_ids, merch_ids, albumes, merch, productos,
                 result, origin, raised>>
  /\ UNCHANGED outside

\* Lines 188-190.
GetSongList ==
  /\ pc = "song_list"
  /\ \/ /\ HasIds(song_ids)
        /\ \E reply \in Replies(DetailBodies("song")) :
             LET out == ClientGetJson(reply) IN
             /\ Fits(out)
             /\ replies' = Append(replies, Answer(reply))
             /\ requests' = Append(requests,
                                   Request(ListPath("song"), Join(song_ids.v)))
             /\ IF out.ok
                THEN /\ canciones' = out.v
                     /\ fetched' = IF Received(out.v)
                                   THEN fetched \cup {"song"} ELSE fetched
                     /\ pc' = "album_list"
                     /\ UNCHANGED <<client, e, failed_kind>>
                ELSE /\ FetchRaises("song", out.exc)
                     /\ UNCHANGED <<canciones, fetched>>
     \/ /\ ~HasIds(song_ids)
        /\ pc' = "album_list"
        /\ UNCHANGED <<client, e, failed_kind, canciones, fetched, requests,
                     replies>>
  /\ UNCHANGED <<song_ids_response, album_ids_response, merch_ids_response,
                 song_ids, album_ids, merch_ids, albumes, merch, productos,
                 result, origin, raised>>
  /\ UNCHANGED outside

\* Lines 192-194.
GetAlbumList ==
  /\ pc = "album_list"
  /\ \/ /\ HasIds(album_ids)
        /\ \E reply \in Replies(DetailBodies("album")) :
             LET out == ClientGetJson(reply) IN
             /\ Fits(out)
             /\ replies' = Append(replies, Answer(reply))
             /\ requests' = Append(requests,
                                   Request(ListPath("album"), Join(album_ids.v)))
             /\ IF out.ok
                THEN /\ albumes' = out.v
                     /\ fetched' = IF Received(out.v)
                                   THEN fetched \cup {"album"} ELSE fetched
                     /\ pc' = "merch_list"
                     /\ UNCHANGED <<client, e, failed_kind>>
                ELSE /\ FetchRaises("album", out.exc)
                     /\ UNCHANGED <<albumes, fetched>>
     \/ /\ ~HasIds(album_ids)
        /\ pc' = "merch_list"
        /\ UNCHANGED <<client, e, failed_kind, albumes, fetched, requests,
                     replies>>
  /\ UNCHANGED <<song_ids_response, album_ids_response, merch_ids_response,
                 song_ids, album_ids, merch_ids, canciones, merch, productos,
                 result, origin, raised>>
  /\ UNCHANGED outside

\* Lines 196-198, and the normal exit of the with block, which closes the
\* client.
GetMerchList ==
  /\ pc = "merch_list"
  /\ \/ /\ HasIds(merch_ids)
        /\ \E reply \in Replies(DetailBodies("merch")) :
             LET out == ClientGetJson(reply) IN
             /\ Fits(out)
             /\ replies' = Append(replies, Answer(reply))
             /\ requests' = Append(requests,
                                   Request(ListPath("merch"), Join(merch_ids.v)))
             /\ IF out.ok
                THEN /\ merch' = out.v
                     /\ fetched' = IF Received(out.v)
                                   THEN fetched \cup {"merch"} ELSE fetched
                     /\ client' = "closed"
                     /\ pc' = "map_songs"
                     /\ UNCHANGED <<e, failed_kind>>
                ELSE /\ FetchRaises("merch", out.exc)
                     /\ UNCHANGED <<merch, fetched>>
     \/ /\ ~HasIds(merch_ids)
        /\ client' = "closed"
        /\ pc' = "map_songs"
        /\ UNCHANGED <<e, failed_kind, merch, fetched, requests,
                     replies>>
  /\ UNCHANGED <<song_ids_response, album_ids_response, merch_ids_response,
                 song_ids, album_ids, merch_ids, canciones, albumes, productos,
                 result, origin, raised>>
  /\ UNCHANGED outside

\* Mutant: the handler empties only the kind whose fetch raised (and the
\* names still unbound) and keeps the records of the other kinds.
DegradedFailedKindOnly ==
  <<IF failed_kind = "song" \/ canciones = Unset THEN EmptyList ELSE canciones,
    IF failed_kind = "album" \/ albumes = Unset THEN EmptyList ELSE albumes,
    IF failed_kind = "merch" \/ merch = Unset THEN EmptyList ELSE merch>>

\* What the handler of lines 200-202 leaves in canciones, albumes, merch.
Degraded == <<EmptyList, EmptyList, EmptyList>>

\* Mutant: the handler of the fetch step lets the exception through to the
\* outer handler.
FetchExceptReraises ==
  /\ pc = "fetch_except"
  /\ canciones' = Degraded[1]
  /\ albumes' = Degraded[2]
  /\ merch' = Degraded[3]
  /\ pc' = "general_except"
  /\ UNCHANGED <<client, song_ids_response, album_ids_response,
                 merch_ids_response, song_ids, album_ids, merch_ids,
                 productos, e, result, history>>
  /\ UNCHANGED outside

\* Lines 200-202: the handler of the fetch step.  The name e is unbound
\* when the except clause ends.
FetchExcept ==
  /\ pc = "fetch_except"
  /\ canciones' = Degraded[1]
  /\ albumes' = Degraded[2]
  /\ merch' = Degraded[3]
  /\ e' = NoExc
  /\ pc' = "map_songs"
  /\ UNCHANGED <<client, song_ids_response, album_ids_response,
                 merch_ids_response, song_ids, album_ids, merch_ids,
                 productos, result, history>>
  /\ UNCHANGED outside

Tags(kind, n) == [i \in 1..n |-> kind]

\* One of the three mapping loops; an exception passes to line 261.
MapStep(kind, records, next) ==
  LET r == ForEach(kind, records, productos) IN
  /\ productos' = r.prods
  /\ origin' = origin \o Tags(kind, Len(r.prods) - Len(productos))
  /\ IF r.ok
     THEN pc' = next /\ UNCHANGED <<e, raised>>
     ELSE pc' = "general_except" /\ e' = r.exc /\ raised' = r.exc
  /\ UNCHANGED <<client, locals, result, requests, fetched, failed_kind,
                 replies>>
  /\ UNCHANGED outside

\* Lines 205-220.
MapSongs == pc = "map_songs" /\ MapStep("song", canciones, "map_albums")

\* Lines 223-238.
MapAlbums == pc = "map_albums" /\ MapStep("album", albumes, "map_merch")

\* Lines 241-256.
MapMerchs == pc = "map_merch" /\ MapStep("merch", merch, "return")

\* [p.to_dict() for p in productos]
Serialize(ps) == PyList([i \in 1..Len(ps) |-> ToDict(ps[i])])

\* Line 259.  The finally clause of lines 264-266 does nothing: conexion is
\* None.
Return ==
  /\ pc = "return"
  /\ result' = Serialize(productos)
  /\ pc' = "done"
  /\ UNCHANGED <<client, locals, productos, e, history>>
  /\ UNCHANGED outside

\* Mutant: the outer handler returns the products mapped so far.
GeneralExceptReturnsPartial ==
  /\ pc = "general_except"
  /\ result' = Serialize(productos)
  /\ e' = NoExc
  /\ pc' = "done"
  /\ UNCHANGED <<client, locals, productos, history>>
  /\ UNCHANGED outside

\* Mutant: the outer handler re-raises, and the exception leaves the
\* function.
GeneralExceptPropagates ==
  /\ pc = "general_except"
  /\ pc' = "propagated"
  /\ UNCHANGED <<client, locals, productos, e, result, history>>
  /\ UNCHANGED outside

\* Lines 261-263.
GeneralExcept ==
  /\ pc = "general_except"
  /\ result' = Error(ErrorCode, e.msg)
  /\ e' = NoExc
  /\ pc' = "done"
  /\ UNCHANGED <<client, locals, productos, history>>
  /\ UNCHANGED outside

Next ==
  \/ Enter
  \/ GetSongFilter \/ GetAlbumFilter \/ GetMerchFilter
  \/ Extract
  \/ GetSongList \/ GetAlbumList \/ GetMerchList
  \/ FetchExcept
  \/ MapSongs \/ MapAlbums \/ MapMerchs
  \/ Return
  \/ GeneralExcept

Spec == Init /\ [][Next]_vars

\* The call runs to its end: the interpreter takes the next step of the
\* function whenever there is one, and every request is answered or fails.
SpecFair == Init /\ [][Next]_vars /\ WF_vars(Next)

(***************************************************************************)
(* The call against a TyA in trouble: every response carries the error     *)
(* status, whatever its body.  The code is that of Spec; only the statuses *)
(* of the responses differ.                                                *)
(***************************************************************************)
InitStatus ==
  /\ pc = "start"
  /\ client = "unopened"
  /\ song_ids_response = Unset /\ album_ids_response = Unset
  /\ merch_ids_response = Unset
  /\ song_ids = Unset /\ album_ids = Unset /\ merch_ids = Unset
  /\ canciones = Unset /\ albumes = Unset /\ merch = Unset
  /\ productos = Unset
  /\ e = NoExc
  /\ result = Unset
  /\ requests = <<>>
  /\ fetched = {}
  /\ failed_kind = ""
  /\ origin = <<>>
  /\ raised = NoExc
  /\ replies = <<>>
  /\ tya = ErrorStatuses
  /\ NoCart
  /\ NoInvocations

SpecStatus == InitStatus /\ [][Next]_vars

(***************************************************************************)
(* The extraction of lines 173-175 on its own: the call has received its   *)
(* three filter responses, drawn from all arrays of filter entries (at     *)
(* most MaxEntries entries in all) and the malformed bodies.               *)
(***************************************************************************)
FilterValues(kind, n) ==
  IF n = 0 THEN {EmptyList} \cup MalformedBodies
  ELSE {PyList(s) : s \in [1..n -> FilterEntries(kind)]}

InitExtract ==
  /\ pc = "extract"
  /\ client = "open"
  /\ \E ls \in 0..MaxEntries :
       \E la \in 0..(MaxEntries - ls) :
         \E lm \in 0..(MaxEntries - ls - la) :
           /\ song_ids_response \in FilterValues("song", ls)
           /\ album_ids_response \in FilterValues("album", la)
           /\ merch_ids_response \in FilterValues("merch", lm)
  /\ song_ids = Unset /\ album_ids = Unset /\ merch_ids = Unset
  /\ canciones = Unset /\ albumes = Unset /\ merch = Unset
  /\ productos = <<>>
  /\ e = NoExc
  /\ result = Unset
  /\ requests = [i \in 1..3 |-> Request(FilterPath(Kinds[i]), "")]
  /\ fetched = {}
  /\ failed_kind = ""
  /\ origin = <<>>
  /\ raised = NoExc
  /\ replies = [i \in 1..Len(requests) |-> Answered]
  /\ tya = UsualStatuses
  /\ NoCart
  /\ NoInvocations

NextExtract == Extract \/ FetchExcept

SpecExtract == InitExtract /\ [][NextExtract]_vars

(***************************************************************************)
(* The mapping of lines 205-259 on its own: the fetch step has ended       *)
(* normally and left the detail records of the three kinds, drawn from     *)
(* records with fields missing, null or varied (at most MaxMapped records  *)
(* in all).                                                                *)
(***************************************************************************)
\* Bound: the total number of detail records the mapping is checked on.
MaxMapped == 2

\* A record without one of its fields, and with one field set.
Without(r, key) == PyDict([k \in DOMAIN r.v \ {key} |-> r.v[k]])
With(r, key, val) == PyDict((key :> val) @@ r.v)

\* A record of another artist with two collaborators, under an identifier
\* no filter response holds.
OtherRecord(kind) ==
  With(With(With(GoodRecord(kind, 1), "collaborators",
                 PyList(<<PyInt(2), PyInt(3)>>)),
            "artistId", PyInt(9)),
       IdKey(kind), PyInt(9))

\* The detail records the mapping is checked on.
MapRecords(kind) ==
  LET r == GoodRecord(kind, 1) IN
  {r, GoodRecord(kind, 2),
   Without(r, "genres"),
   With(r, "genres", EmptyList),
   With(r, "genres", PyList(<<PyInt(7)>>)),
   With(r, "genres", PyList(<<PyInt(3), PyInt(7)>>)),
   Without(r, "releaseDate"),
   Without(r, IdKey(kind)),
   Entry(kind, 3),
   With(r, "collaborators", None),
   OtherRecord(kind)}
    \cup (IF kind = "song" THEN {With(r, "albumId", None)} ELSE {})

\* The filter response, the identifiers and the detail request that go with
\* the detail records of a kind.
FilterFor(kind, records) ==
  IF Len(records.v) = 0 THEN EmptyList
  ELSE PyList(<<Entry(kind, 1), Entry(kind, 2), Entry(kind, 3)>>)
IdsFor(kind, records) ==
  IF Len(records.v) = 0 THEN EmptyList
  ELSE PyList(<<PyInt(1), PyInt(2), PyInt(3)>>)
ListRequestFor(kind, records) ==
  IF Len(records.v) = 0 THEN <<>> ELSE <<Request(ListPath(kind), "1,2,3")>>

InitMap ==
  /\ pc = "map_songs"
  /\ client = "closed"
  /\ \E ns \in 0..MaxMapped :
       \E na \in 0..(MaxMapped - ns) :
         \E nm \in 0..(MaxMapped - ns - na) :
           /\ canciones \in {PyList(s) : s \in [1..ns -> MapRecords("song")]}
           /\ albumes \in {PyList(s) : s \in [1..na -> MapRecords("album")]}
           /\ merch \in {PyList(s) : s \in [1..nm -> MapRecords("merch")]}
  /\ song_ids_response = FilterFor("song", canciones)
  /\ album_ids_response = FilterFor("album", albumes)
  /\ merch_ids_response = FilterFor("merch", merch)
  /\ song_ids = IdsFor("song", canciones)
  /\ album_ids = IdsFor("album", albumes)
  /\ merch_ids = IdsFor("merch", merch)
  /\ productos = <<>>
  /\ e = NoExc
  /\ result = Unset
  /\ requests = [i \in 1..3 |-> Request(FilterPath(Kinds[i]), "")]
                  \o ListRequestFor("song", canciones)
                  \o ListRequestFor("album", albumes)
                  \o ListRequestFor("merch", merch)
  /\ fetched = {k \in KindSet :
                  Len((CASE k = "song" -> canciones
                         [] k = "album" -> albumes
                         [] k = "merch" -> merch).v) > 0}
  /\ failed_kind = ""
  /\ origin = <<>>
  /\ raised = NoExc
  /\ replies = [i \in 1..Len(requests) |-> Answered]
  /\ tya = UsualStatuses
  /\ NoCart
  /\ NoInvocations

NextMap == MapSongs \/ MapAlbums \/ MapMerchs \/ Return \/ GeneralExcept

SpecMap == InitMap /\ [][NextMap]_vars

(***************************************************************************)
(* Properties.                                                             *)
(***************************************************************************)
\* A filter entry whose identifier is present, not null and not zero.
HasId(entry, key) ==
  /\ entry.t = "dict"
  /\ key \in DOMAIN entry.v
  /\ entry.v[key].t = "int"
  /\ entry.v[key].v # 0

\* The positions of the entries of a filter array that carry an identifier.
IdPositions(response, key) ==
  {i \in 1..Len(response.v) : HasId(response.v[i], key)}

\* ids holds the identifiers at those positions, in the array's order.
KeepsIds(ids, response, key) ==
  LET pos == IdPositions(response, key) IN
  /\ Len(ids.v) = Cardinality(pos)
  /\ \A i \in pos :
       ids.v[Cardinality({j \in pos : j <= i})] = response.v[i].v[key]

\* C8: once the identifiers are extracted, each kind's identifier list holds
\* exactly the identifiers of the filter entries whose identifier is present,
\* not null and not 0, in response order, so its length is the number of
\* such entries.
C8_ExtractKeepsTruthyIds ==
  pc = "song_list" =>
    /\ KeepsIds(song_ids, song_ids_response, "songId")
    /\ KeepsIds(album_ids, album_ids_response, "albumId")
    /\ KeepsIds(merch_ids, merch_ids_response, "merchId")

\* C8 witness: a song filter response with a zero identifier between two
\* positive ones was extracted to [2, 1].
C8_Witness ==
  /\ pc = "song_list"
  /\ song_ids_response =
       PyList(<<Entry("song", 2), Entry("song", 0), Entry("song", 1)>>)
  /\ song_ids = PyList(<<PyInt(2), PyInt(1)>>)

\* The call has returned.
Done == pc = "done"

\* The fetch step is over, by its normal exit or through its handler.
AfterFetch == pc \in {"map_songs", "map_albums", "map_merch", "return",
                      "general_except", "done"}

\* A request of the fetch step, or one of the comprehensions, raised.
FetchFailed == failed_kind # ""

\* The kinds some product of productos was mapped from.
KindsMapped == {origin[i] : i \in 1..Len(origin)}

C2_OnlyFailedKindIsEmpty ==
  (Done /\ FetchFailed) =>
    /\ result.t = "list"
    /\ \A k \in fetched \ {failed_kind} : k \in KindsMapped

\* A JSON body that is not an array of objects.
Malformed(body) ==
  /\ body # Unset
  /\ \/ body.t # "list"
     \/ \E i \in 1..Len(body.v) : body.v[i].t # "dict"

\* TyA failed in this call: a request raised, or a response was malformed.
UpstreamFault ==
  \/ FetchFailed
  \/ Malformed(canciones) \/ Malformed(albumes) \/ Malformed(merch)

\* C3: whatever way TyA fails, the call returns the empty list.
C3_UpstreamFaultGivesEmptyList ==
  (Done /\ UpstreamFault) => result = EmptyList

\* C4: the call returns an Error object exactly when a mapping loop raised,
\* and that object has code "500" and the text of the exception as message;
\* a failure of the fetch step never gives an Error object.
C4_ErrorOnlyFromMapping ==
  Done =>
    /\ (result.t = "Error") <=> (raised # NoExc)
    /\ result.t = "Error" =>
         /\ result.code = "500"
         /\ result.message = raised.msg
    /\ result.t # "Error" => result.t = "list"

\* C4 witness: a song record with null collaborators made the song loop
\* raise, and the call returned Error("500", <the TypeError's text>).
C4_Witness ==
  /\ Done
  /\ ~FetchFailed
  /\ "song" \in fetched
  /\ result = Error("500", "'NoneType' object is not iterable")

\* C5: a fatal failure is handed to the routing layer as the pair
\* (Error, 500).
C5_FatalFailureCarriesStatus500 ==
  (Done /\ raised # NoExc) =>
    /\ result.t = "tuple"
    /\ result.v[1].t = "Error"
    /\ result.v[2] = 500

\* C6: a successful call for which TyA returned song identifiers and song
\* records answers an object with a data member and a pagination member
\* holding page, limit, total and totalPages.
C6_SuccessIsPaginated ==
  (Done /\ raised = NoExc /\ "song" \in fetched /\ ~FetchFailed) =>
    /\ result.t = "dict"
    /\ {"data", "pagination"} \subseteq DOMAIN result.v
    /\ result.v["pagination"].t = "dict"
    /\ {"page", "limit", "total", "totalPages"}
         \subseteq DOMAIN result.v["pagination"].v

Rank(kind) == CHOOSE i \in 1..3 : Kinds[i] = kind

\* The element of the returned list at position i comes from record r of
\* the given kind: it carries the record's identifier and title.
ComesFrom(i, kind, r) ==
  /\ origin[i] = kind
  /\ result.v[i].v[IdKey(kind)] = Get(r, IdKey(kind))
  /\ result.v[i].v["name"] = Get(r, "title")

\* C7: a returned list holds one product per song record, then one per album
\* record, then one per merch record, each kind in the order of its detail
\* response.
C7_KindOrderAndRecordOrder ==
  (Done /\ result.t = "list") =>
    LET ns == Len(canciones.v)
        na == Len(albumes.v)
        nm == Len(merch.v) IN
    /\ Len(result.v) = ns + na + nm
    /\ Len(origin) = Len(result.v)
    /\ \A i \in 1..Len(origin) : \A j \in i..Len(origin) :
         Rank(origin[i]) <= Rank(origin[j])
    /\ \A i \in 1..ns : ComesFrom(i, "song", canciones.v[i])
    /\ \A i \in 1..na : ComesFrom(ns + i, "album", albumes.v[i])
    /\ \A i \in 1..nm : ComesFrom(ns + na + i, "merch", merch.v[i])

\* C7 witness: a list was returned whose two products are in the order of
\* the two distinct records of one detail response.
C7_Witness ==
  /\ Done
  /\ result.t = "list"
  /\ albumes = PyList(<<AlbumRecord(2), AlbumRecord(1)>>)
  /\ origin = <<"album", "album">>
  /\ result.v[1].v["albumId"] = PyInt(2)
  /\ result.v[2].v["albumId"] = PyInt(1)

ListRequests(kind) ==
  {i \in 1..Len(requests) : requests[i].path = ListPath(kind)}

IdsOf(kind) ==
  CASE kind = "song" -> song_ids
    [] kind = "album" -> album_ids
    [] kind = "merch" -> merch_ids

\* C9: a kind whose identifier list is empty gets no detail request and
\* contributes no product; the records received for the other kinds are
\* still mapped when the fetch step ends without a failure.
C9_NoIdsNoRequestNoProduct ==
  \A k \in KindSet :
    /\ IdsOf(k) = EmptyList =>
         /\ ListRequests(k) = {}
         /\ k \notin KindsMapped
         /\ k \notin fetched
    /\ (Done /\ ~FetchFailed /\ result.t = "list" /\ k \in fetched)
         => k \in KindsMapped

\* C9 witness: the call returned with no song identifier, no song request
\* and no song product, and with album products.
C9_Witness ==
  /\ Done
  /\ song_ids = EmptyList
  /\ ListRequests("song") = {}
  /\ result.t = "list"
  /\ KindsMapped = {"album"}

\* The identifiers as text, joined by commas, built from the last one back.
RECURSIVE IdsText(_)
IdsText(ids) ==
  IF Len(ids) = 0 THEN ""
  ELSE IF Len(ids) = 1 THEN ToString(ids[1].v)
  ELSE IdsText(SubSeq(ids, 1, Len(ids) - 1)) \o ","
         \o ToString(ids[Len(ids)].v)

RecordsOf(kind) ==
  CASE kind = "song" -> canciones
    [] kind = "album" -> albumes
    [] kind = "merch" -> merch

\* The detail record the product at position i of productos was mapped from:
\* the loops append one product per record, in order.
RecordOf(i) ==
  LET k == origin[i]
      n == Cardinality({j \in 1..i : origin[j] = k}) IN
  RecordsOf(k).v[n]

\* The text of the first element of the record's genres list, "0" when the
\* record has no genres or an empty list.
FirstGenreText(r) ==
  IF "genres" \in DOMAIN r.v /\ r.v["genres"].t = "list"
       /\ Len(r.v["genres"].v) > 0
  THEN ToString(r.v["genres"].v[1].v)
  ELSE "0"

UpstreamDates == {"2024-01-01"}

\* C13: the releaseDate of every product is the date-only releaseDate of
\* its record with T00:00:00Z appended ("2024-01-01" gives
\* "2024-01-01T00:00:00Z"), an explicit UTC-midnight timestamp.
C13_ReleaseDateIsUtcMidnight ==
  \A i \in 1..Len(productos) :
    \E d \in UpstreamDates :
      productos[i].release_date = PyStr(d \o "T00:00:00Z")

\* The call returned a list; productos holds the products it serialises.
ReturnedList == Done /\ result.t = "list"

\* C14: in every returned list a product has the specific fields of the
\* other kinds at their neutral default (song: merchId 0, songList empty;
\* album: songId 0, merchId 0, duration 0; merch: songId 0, albumId 0,
\* duration 0, songList empty), and none of songId, albumId, merchId,
\* duration, songList is null.
C14_OtherKindFieldsNeutralNeverNull ==
  ReturnedList =>
    \A i \in 1..Len(productos) :
      LET p == productos[i] IN
      /\ origin[i] = "song" =>
           p.merch_id = PyInt(0) /\ p.song_list = EmptyList
      /\ origin[i] = "album" =>
           p.song_id = PyInt(0) /\ p.merch_id = PyInt(0)
             /\ p.duration = PyInt(0)
      /\ origin[i] = "merch" =>
           p.song_id = PyInt(0) /\ p.album_id = PyInt(0)
             /\ p.duration = PyInt(0) /\ p.song_list = EmptyList
      /\ p.song_id # None /\ p.album_id # None /\ p.merch_id # None
      /\ p.duration # None /\ p.song_list # None

\* An identity field that is set: neither null nor 0.
IsSet(v) == v # None /\ v # PyInt(0)

\* The kinds the identity fields of a product stand for: songId set means
\* song, albumId set with no songId means album, merchId set means merch.
InferredKinds(p) ==
  {k \in KindSet :
     CASE k = "song" -> IsSet(p.song_id)
       [] k = "album" -> IsSet(p.album_id) /\ ~IsSet(p.song_id)
       [] k = "merch" -> IsSet(p.merch_id)}

\* C15: in every returned list the identity fields of a product stand for
\* exactly one kind, the kind of the detail list its record came from.
C15_InferredKindIsOrigin ==
  ReturnedList =>
    \A i \in 1..Len(productos) : InferredKinds(productos[i]) = {origin[i]}

\* C16: in every returned list name, price, description and cover of every
\* product are not null, also when the detail record lacks one of them.
C16_RequiredFieldsNotNull ==
  ReturnedList =>
    \A i \in 1..Len(productos) :
      LET p == productos[i] IN
      /\ p.name # None /\ p.price # None
      /\ p.description # None /\ p.cover # None

\* C17: every call ends by returning a value, a list of product
\* dictionaries or an Error object; no exception leaves the function.
C17_AlwaysReturns ==
  <>(Done /\ result.t \in {"list", "Error"})

\* C17 witness: all six requests were answered, a mapping loop raised, and
\* the call ended by returning an Error object.
C17_Witness ==
  /\ Done
  /\ Len(requests) = 6
  /\ raised # NoExc
  /\ e = NoExc
  /\ result.t = "Error"

\* C20: the call opens one client session; every request is issued while it
\* is open; it is closed when the fetch step ends, by its normal exit or
\* through an exception, before the first record is mapped and before the
\* call returns, and it is never opened again.
C20_OneSessionAroundAllRequests ==
  /\ [](AfterFetch => client = "closed")
  /\ [](pc = "fetch_except" => client = "closed")
  /\ [][/\ requests' # requests => client = "open"
        /\ client' # client =>
             <<client, client'>> \in {<<"unopened", "open">>,
                                     <<"open", "closed">>}
        /\ origin' # origin => client = "closed"
        /\ result' # result => client = "closed"]_vars

\* C20 witness: five requests went out, the last one raised, and the call
\* returned with the session closed.
C20_Witness ==
  /\ Done
  /\ Len(requests) = 5
  /\ failed_kind = "album"
  /\ client = "closed"

(***************************************************************************)
(* models/cart_body.py: a CartBody object, its constructor and setters.    *)
(***************************************************************************)
\* Bound: the largest magnitude of the unidades values tried.
MaxUnidades == 2

\* a or b
Or(a, b) == IF Truthy(a) THEN a ELSE b

\* The identifiers and the unidades values passed to a CartBody.
CartIds == {None, PyInt(1)}
UnidadesArgs == {None} \cup {PyInt(n) : n \in (-MaxUnidades)..MaxUnidades}

\* CartBody.__init__, lines 102-105.
CartBody(song_id, album_id, merch_id, unidades) ==
  [song_id |-> song_id, album_id |-> album_id, merch_id |-> merch_id,
   unidades |-> Or(unidades, PyInt(1))]

\* No storefront call is under way.
NotCalled ==
  /\ pc = "start"
  /\ client = "unopened"
  /\ song_ids_response = Unset /\ album_ids_response = Unset
  /\ merch_ids_response = Unset
  /\ song_ids = Unset /\ album_ids = Unset /\ merch_ids = Unset
  /\ canciones = Unset /\ albumes = Unset /\ merch = Unset
  /\ productos = Unset
  /\ e = NoExc
  /\ result = Unset
  /\ requests = <<>>
  /\ fetched = {}
  /\ failed_kind = ""
  /\ origin = <<>>
  /\ raised = NoExc
  /\ replies = <<>>
  /\ tya = UsualStatuses

\* A CartBody as its constructor leaves it, for any arguments.
InitCart ==
  /\ NotCalled
  /\ NoInvocations
  /\ \E song_id \in CartIds, album_id \in CartIds, merch_id \in CartIds,
        unidades \in UnidadesArgs :
       cart_body = CartBody(song_id, album_id, merch_id, unidades)
  /\ assigned = Unset
  /\ cart_raised = NoExc

\* Lines 134-136.
SetSongId ==
  /\ \E song_id \in CartIds :
       cart_body' = [cart_body EXCEPT !.song_id = song_id]
  /\ UNCHANGED <<assigned, cart_raised>>
  /\ UNCHANGED <<pc, client, locals, productos, e, result, history, tya,
                 twin>>

\* Lines 142-144.
SetAlbumId ==
  /\ \E album_id \in CartIds :
       cart_body' = [cart_body EXCEPT !.album_id = album_id]
  /\ UNCHANGED <<assigned, cart_raised>>
  /\ UNCHANGED <<pc, client, locals, productos, e, result, history, tya,
                 twin>>

\* Lines 150-152.
SetMerchId ==
  /\ \E merch_id \in CartIds :
       cart_body' = [cart_body EXCEPT !.merch_id = merch_id]
  /\ UNCHANGED <<assigned, cart_raised>>
  /\ UNCHANGED <<pc, client, locals, productos, e, result, history, tya,
                 twin>>

\* Lines 158-179: the unidades setter.
SetUnidades ==
  /\ \E unidades \in UnidadesArgs :
       /\ assigned' = unidades
       /\ IF unidades # None /\ unidades.v < 1
          THEN /\ cart_raised' =
                    Exc("ValueError", "La cantidad debe ser al menos 1")
               /\ UNCHANGED cart_body
          ELSE /\ cart_body' =
                    [cart_body EXCEPT !.unidades = Or(unidades, PyInt(1))]
               /\ cart_raised' = NoExc
  /\ UNCHANGED <<pc, client, locals, productos, e, result, history, tya,
                 twin>>

NextCart == SetSongId \/ SetAlbumId \/ SetMerchId \/ SetUnidades

SpecCart == InitCart /\ [][NextCart]_vars

\* C18: in every state of a CartBody, after construction with any unidades
\* argument and after any sequence of assignments, accepted or rejected,
\* the stored unidades is at least 1.
C18_UnidadesAtLeastOne ==
  cart_body # Unset =>
    /\ cart_body.unidades.t = "int"
    /\ cart_body.unidades.v >= 1

\* C19: after None or a value smaller than 1 was assigned to unidades, the
\* stored unidades is the default 1.
C19_RejectedValueBecomesOne ==
  (assigned # Unset /\ (assigned = None \/ assigned.v < 1)) =>
    cart_body.unidades = PyInt(1)

(***************************************************************************)
(* Properties of the field rules of the mapping, checked on SpecMap.       *)
(***************************************************************************)
\* The text of an upstream value: None reads "None".
Text(v) ==
  IF v = None THEN "None"
  ELSE IF v.t = "int" THEN ToString(v.v)
  ELSE v.v

\* The elements of a list field of a record as text, in order; empty when
\* the record has no such field.
Texts(r, field) ==
  LET xs == IF field \in DOMAIN r.v THEN r.v[field].v ELSE <<>> IN
  PyList([n \in 1..Len(xs) |-> PyStr(Text(xs[n]))])

\* The upstream fields common to the three kinds.
CommonKeys ==
  {"artistId", "cover", "price", "description", "collaborators",
   "releaseDate"}

\* Two records carry equal values for the common fields.
SameCommon(r, q) ==
  \A k \in CommonKeys :
    /\ k \in DOMAIN r.v <=> k \in DOMAIN q.v
    /\ k \in DOMAIN r.v => r.v[k] = q.v[k]

\* C23: a product's artist is the text of artistId, its collaborators the
\* text of each upstream element in order (empty when absent), its cover,
\* price and description the record's; so records of any two kinds with
\* equal common fields give products equal in artist, cover, price,
\* description, collaborators and releaseDate.
C23_CommonFieldsSameForAllKinds ==
  /\ \A i \in 1..Len(productos) :
       LET p == productos[i]
           r == RecordOf(i) IN
       /\ p.artist = PyStr(Text(Get(r, "artistId")))
       /\ p.colaborators = Texts(r, "collaborators")
       /\ p.cover = Get(r, "cover")
       /\ p.price = Get(r, "price")
       /\ p.description = Get(r, "description")
  /\ \A i, j \in 1..Len(productos) :
       SameCommon(RecordOf(i), RecordOf(j)) =>
         /\ productos[i].artist = productos[j].artist
         /\ productos[i].cover = productos[j].cover
         /\ productos[i].price = productos[j].price
         /\ productos[i].description = productos[j].description
         /\ productos[i].colaborators = productos[j].colaborators
         /\ productos[i].release_date = productos[j].release_date

\* C23 witness: a song record and a merch record of artist 9 with
\* collaborators [2, 3] were mapped to products with artist "9" and
\* collaborators ["2", "3"], which differ in their identity fields.
C23_Witness ==
  /\ origin = <<"song", "merch">>
  /\ canciones.v[1] = OtherRecord("song")
  /\ merch.v[1] = OtherRecord("merch")
  /\ productos[1].artist = PyStr("9")
  /\ productos[2].artist = PyStr("9")
  /\ productos[1].colaborators = PyList(<<PyStr("2"), PyStr("3")>>)
  /\ productos[2].colaborators = productos[1].colaborators
  /\ productos[1].song_id # productos[2].song_id

\* C24: a product mapped from a song record has the record's songId,
\* albumId, duration, description, cover and price, the record's title as
\* name, merchId 0 and an empty songList; only products mapped from song
\* records have a duration other than 0.
C24_SongFieldsCopied ==
  \A i \in 1..Len(productos) :
    LET p == productos[i]
        r == RecordOf(i) IN
    /\ origin[i] = "song" =>
         /\ p.song_id = Get(r, "songId")
         /\ p.album_id = Get(r, "albumId")
         /\ p.duration = Get(r, "duration")
         /\ p.description = Get(r, "description")
         /\ p.cover = Get(r, "cover")
         /\ p.price = Get(r, "price")
         /\ p.name = Get(r, "title")
         /\ p.merch_id = PyInt(0)
         /\ p.song_list = EmptyList
    /\ p.duration # PyInt(0) => origin[i] = "song"

\* C24 witness: song record 2 was mapped to a product named "Test 2" of
\* duration 180, and an album record to a product of duration 0.
C24_Witness ==
  /\ origin = <<"song", "album">>
  /\ canciones.v[1] = SongRecord(2)
  /\ productos[1].song_id = PyInt(2)
  /\ productos[1].name = PyStr("Test 2")
  /\ productos[1].duration = PyInt(180)
  /\ productos[2].duration = PyInt(0)

\* C25: a product mapped from an album record has the record's albumId,
\* the record's title as name, and as songList the text of each element of
\* the record's songs in order (empty when songs is absent); only products
\* mapped from album records have a songList that is not empty.
C25_AlbumSongListAsText ==
  \A i \in 1..Len(productos) :
    LET p == productos[i]
        r == RecordOf(i) IN
    /\ origin[i] = "album" =>
         /\ p.album_id = Get(r, "albumId")
         /\ p.name = Get(r, "title")
         /\ p.song_list = Texts(r, "songs")
    /\ p.song_list # EmptyList => origin[i] = "album"

\* C25 witness: an album record with songs [1, 2] was mapped to songList
\* ["1", "2"], and an album record without songs to an empty songList.
C25_Witness ==
  /\ origin = <<"album", "album">>
  /\ albumes.v[1] = AlbumRecord(2)
  /\ productos[1].song_list = PyList(<<PyStr("1"), PyStr("2")>>)
  /\ "songs" \notin DOMAIN albumes.v[2].v
  /\ productos[2].song_list = EmptyList

\* The identity field of a product that belongs to a kind.
OwnId(p, kind) ==
  CASE kind = "song" -> p.song_id
    [] kind = "album" -> p.album_id
    [] kind = "merch" -> p.merch_id

\* C28: when nothing fails, the returned list has one product per record of
\* the detail responses, whatever identifiers were requested: each product
\* carries the identifier its record carries, requested or not, missing or
\* repeated.
C28_OneProductPerRecordReceived ==
  ReturnedList =>
    /\ Len(result.v) =
         Len(canciones.v) + Len(albumes.v) + Len(merch.v)
    /\ Len(productos) = Len(result.v)
    /\ \A i \in 1..Len(productos) :
         OwnId(productos[i], origin[i]) = Get(RecordOf(i), IdKey(origin[i]))

\* C28 witness: the identifiers 1, 2, 3 were requested; the detail response
\* held twice the same record of identifier 9, and the returned list has
\* two products of identifier 9.
C28_Witness ==
  /\ ReturnedList
  /\ song_ids = PyList(<<PyInt(1), PyInt(2), PyInt(3)>>)
  /\ canciones = PyList(<<OtherRecord("song"), OtherRecord("song")>>)
  /\ Len(result.v) = 2
  /\ productos[1].song_id = PyInt(9)
  /\ productos[2].song_id = PyInt(9)

ErrorAnswers ==
  {i \in 1..Len(replies) :
     replies[i].json /\ replies[i].status \notin UsualStatuses}

\* C29: a response with a non-success status and a JSON body never makes
\* the request fail; when no request failed, the identifiers of every kind
\* that has some were requested, and a returned list has one product per
\* record of the detail responses, whatever the statuses were.
C29_StatusNeverInspected ==
  /\ \A i \in ErrorAnswers : ~replies[i].raised
  /\ (ErrorAnswers # {} /\ AfterFetch /\ ~FetchFailed) =>
       \A k \in KindSet :
         Truthy(IdsOf(k)) =>
           \E i \in 4..Len(requests) :
             requests[i] = Request(ListPath(k), Join(IdsOf(k).v))
  /\ (ErrorAnswers # {} /\ ReturnedList /\ ~FetchFailed) =>
       /\ Len(result.v) = ItemsOf(canciones) + ItemsOf(albumes) + ItemsOf(merch)
       /\ \A i \in 1..Len(productos) :
            OwnId(productos[i], origin[i]) = Get(RecordOf(i), IdKey(origin[i]))

\* C29 witness: the song filter and the song detail request were both
\* answered with status 500 and a JSON array; the identifiers 1, 2, 3 were
\* requested and the returned list holds the product of the record.
C29_Witness ==
  /\ ReturnedList
  /\ Len(requests) = 4
  /\ replies[1].status = 500 /\ replies[4].status = 500
  /\ requests[4] = Request(ListPath("song"), "1,2,3")
  /\ Len(result.v) = 1
  /\ origin = <<"song">>
  /\ OwnId(productos[1], "song") = Get(canciones.v[1], "songId")

(***************************************************************************)
(* Properties of the order of the requests and of the failure paths,       *)
(* checked on Spec.                                                        *)
(***************************************************************************)
\* The kind a detail request asks for.
ListKind(i) == CHOOSE k \in KindSet : requests[i].path = ListPath(k)

\* C21: the requests of a call go out one at a time, at most six of them;
\* the first three are the filter requests for song, album, merch in that
\* order, and the detail requests follow, at most one per kind, in the
\* order song, album, merch.
C21_SixRequestsInOrder ==
  /\ [](/\ Len(requests) <= 6
        /\ \A i \in 1..Len(requests) :
             IF i <= 3 THEN requests[i].path = FilterPath(Kinds[i])
             ELSE \E k \in KindSet : requests[i].path = ListPath(k)
        /\ \A i, j \in 4..Len(requests) :
             i < j => Rank(ListKind(i)) < Rank(ListKind(j)))
  /\ [][\/ requests' = requests
        \/ /\ Len(requests') = Len(requests) + 1
           /\ SubSeq(requests', 1, Len(requests)) = requests]_vars

\* C21 witness: six requests went out, the three filter requests and then
\* the detail requests for song, album, merch.
C21_Witness ==
  /\ Len(requests) = 6
  /\ requests[1].path = "/song/filter"
  /\ requests[2].path = "/album/filter"
  /\ requests[3].path = "/merch/filter"
  /\ requests[4].path = "/song/list"
  /\ requests[5].path = "/album/list"
  /\ requests[6].path = "/merch/list"

C27_NoPartialList ==
  Done =>
    /\ raised # NoExc => result = Error(ErrorCode, raised.msg)
    /\ result.t = "list" =>
         /\ raised = NoExc
         /\ Len(result.v) =
              ItemsOf(canciones) + ItemsOf(albumes) + ItemsOf(merch)

\* C27 witness: a product had been mapped when a later record raised; the
\* call returned an Error object.
C27_Witness ==
  /\ Done
  /\ Len(productos) > 0
  /\ raised # NoExc
  /\ result.t = "Error"

(***************************************************************************)
(* Two invocations of show_storefront_products under way at once, their    *)
(* steps interleaved in any order (one after the other included).  Each    *)
(* invocation meets its own TyA responses; its locals productos,           *)
(* canciones, albumes, merch and e live in the frame of its call.  The     *)
(* module holds no list or other mutable object (lines 49-54 import names  *)
(* and nothing else).                                                      *)
(***************************************************************************)
Invocations == {1, 2}

\* A response with a JSON body.
JsonReply(v) == [t |-> "json", status |-> 200, v |-> v]

\* The responses TyA gives to the six requests of one invocation.
Upstream(sf, af, mf, sl, al, ml) ==
  [song_filter |-> sf, album_filter |-> af, merch_filter |-> mf,
   song_list |-> sl, album_list |-> al, merch_list |-> ml]

NoEntries == JsonReply(EmptyList)
ThreeEntries(kind) ==
  JsonReply(PyList(<<Entry(kind, 1), Entry(kind, 2), Entry(kind, 3)>>))

\* What TyA answers to an invocation: an empty catalogue; two songs; an
\* album and a merch item; no answer to the first request; a song and then
\* a merch array that holds no records.
Scenarios ==
  {Upstream(NoEntries, NoEntries, NoEntries, NoEntries, NoEntries, NoEntries),
   Upstream(ThreeEntries("song"), NoEntries, NoEntries,
            JsonReply(PyList(<<SongRecord(1), SongRecord(2)>>)),
            NoEntries, NoEntries),
   Upstream(NoEntries, ThreeEntries("album"), ThreeEntries("merch"),
            NoEntries, JsonReply(PyList(<<AlbumRecord(1)>>)),
            JsonReply(PyList(<<MerchRecord(2)>>))),
   Upstream([t |-> "timeout"], NoEntries, NoEntries,
            NoEntries, NoEntries, NoEntries),
   Upstream(ThreeEntries("song"), NoEntries, ThreeEntries("merch"),
            JsonReply(PyList(<<SongRecord(1)>>)), NoEntries,
            JsonReply(PyList(<<PyInt(7)>>)))}

\* Lines 159-202 as a whole: the three filter requests, the three
\* comprehensions, the detail requests of the kinds that have identifiers;
\* an exception anywhere leaves the three lists as the handler sets them.
FetchAll(up) ==
  LET f1 == ClientGetJson(up.song_filter)
      f2 == ClientGetJson(up.album_filter)
      f3 == ClientGetJson(up.merch_filter) IN
  IF ~f1.ok \/ ~f2.ok \/ ~f3.ok THEN Degraded
  ELSE LET i1 == ExtractIds(f1.v, "songId")
           i2 == ExtractIds(f2.v, "albumId")
           i3 == ExtractIds(f3.v, "merchId") IN
       IF ~i1.ok \/ ~i2.ok \/ ~i3.ok THEN Degraded
       ELSE LET l1 == IF HasIds(i1.v) THEN ClientGetJson(up.song_list)
                      ELSE Ok(EmptyList)
                l2 == IF HasIds(i2.v) THEN ClientGetJson(up.album_list)
                      ELSE Ok(EmptyList)
                l3 == IF HasIds(i3.v) THEN ClientGetJson(up.merch_list)
                      ELSE Ok(EmptyList) IN
            IF ~l1.ok \/ ~l2.ok \/ ~l3.ok THEN Degraded
            ELSE <<l1.v, l2.v, l3.v>>

\* The locals of a call before line 156.
Unbound ==
  [productos |-> Unset, canciones |-> Unset, albumes |-> Unset,
   merch |-> Unset, e |-> NoExc]

\* Mutant: productos, canciones, albumes and merch are names of the module,
\* bound once for every invocation.
FrameShared(c) == 1

\* The frame the locals of invocation c are bound in: each call of the
\* function has its own.
Frame(c) == c

InitTwin ==
  /\ NotCalled
  /\ NoCart
  /\ inv_pc = [c \in Invocations |-> "start"]
  /\ inv_up \in [Invocations -> Scenarios]
  /\ frames = [c \in Invocations |-> Unbound]
  /\ inv_result = [c \in Invocations |-> Unset]

\* Line 156.
InvEnter(c) ==
  /\ inv_pc[c] = "start"
  /\ frames' = [frames EXCEPT ![Frame(c)].productos = <<>>]
  /\ inv_pc' = [inv_pc EXCEPT ![c] = "fetch"]
  /\ UNCHANGED <<inv_up, inv_result>>

\* Lines 159-202.
InvFetch(c) ==
  /\ inv_pc[c] = "fetch"
  /\ LET got == FetchAll(inv_up[c]) IN
     frames' = [frames EXCEPT ![Frame(c)].canciones = got[1],
                              ![Frame(c)].albumes = got[2],
                              ![Frame(c)].merch = got[3]]
  /\ inv_pc' = [inv_pc EXCEPT ![c] = "map_songs"]
  /\ UNCHANGED <<inv_up, inv_result>>

\* One of the three mapping loops of invocation c.
InvMap(c, kind, records, next) ==
  LET r == ForEach(kind, records, frames[Frame(c)].productos) IN
  /\ frames' = [frames EXCEPT ![Frame(c)].productos = r.prods,
                              ![Frame(c)].e = IF r.ok THEN @ ELSE r.exc]
  /\ inv_pc' = [inv_pc EXCEPT ![c] = IF r.ok THEN next ELSE "general_except"]
  /\ UNCHANGED <<inv_up, inv_result>>

\* Lines 205-220.
InvMapSongs(c) ==
  /\ inv_pc[c] = "map_songs"
  /\ InvMap(c, "song", frames[Frame(c)].canciones, "map_albums")

\* Lines 223-238.
InvMapAlbums(c) ==
  /\ inv_pc[c] = "map_albums"
  /\ InvMap(c, "album", frames[Frame(c)].albumes, "map_merch")

\* Lines 241-256.
InvMapMerchs(c) ==
  /\ inv_pc[c] = "map_merch"
  /\ InvMap(c, "merch", frames[Frame(c)].merch, "return")

\* Line 259.
InvReturn(c) ==
  /\ inv_pc[c] = "return"
  /\ inv_result' = [inv_result EXCEPT
                      ![c] = Serialize(frames[Frame(c)].productos)]
  /\ inv_pc' = [inv_pc EXCEPT ![c] = "done"]
  /\ UNCHANGED <<inv_up, frames>>

\* Lines 261-263.
InvGeneralExcept(c) ==
  /\ inv_pc[c] = "general_except"
  /\ inv_result' = [inv_result EXCEPT
                      ![c] = Error(ErrorCode, frames[Frame(c)].e.msg)]
  /\ frames' = [frames EXCEPT ![Frame(c)].e = NoExc]
  /\ inv_pc' = [inv_pc EXCEPT ![c] = "done"]
  /\ UNCHANGED inv_up

\* One step of one of the two invocations.
InvStep(c) ==
  \/ InvEnter(c)
  \/ InvFetch(c)
  \/ InvMapSongs(c)
  \/ InvMapAlbums(c)
  \/ InvMapMerchs(c)
  \/ InvReturn(c)
  \/ InvGeneralExcept(c)

NextTwin ==
  /\ \E c \in Invocations : InvStep(c)
  /\ UNCHANGED <<pc, client, locals, productos, e, result, history, cart,
                 tya>>

SpecTwin == InitTwin /\ [][NextTwin]_vars

\* What show_storefront_products returns when it runs alone against the
\* responses up: lines 154-263 from top to bottom.
RunAlone(up) ==
  LET got == FetchAll(up)
      s == ForEach("song", got[1], <<>>)
      a == IF s.ok THEN ForEach("album", got[2], s.prods) ELSE s
      m == IF a.ok THEN ForEach("merch", got[3], a.prods) ELSE a IN
  IF m.ok THEN Serialize(m.prods) ELSE Error(ErrorCode, m.exc.msg)

\* C22: whatever the interleaving of two invocations, each one that has
\* returned has returned what it returns when it runs alone against the
\* same TyA responses.
C22_InvocationsShareNothing ==
  \A c \in Invocations :
    inv_pc[c] = "done" => inv_result[c] = RunAlone(inv_up[c])

\* C22 witness: both invocations have returned; the first met two songs and
\* returned their two products, the second met a merch array without
\* records and returned an Error, and neither result shows in the other.
C22_Witness ==
  /\ \A c \in Invocations : inv_pc[c] = "done"
  /\ inv_result[1].t = "list" /\ Len(inv_result[1].v) = 2
  /\ inv_result[1].v[1].v["songId"] = PyInt(1)
  /\ inv_result[1].v[2].v["songId"] = PyInt(2)
  /\ inv_result[2].t = "Error"
  /\ frames[2].productos # <<>>

====
